---- MODULE Spec2Model ----
(***************************************************************************)
(* Entity-Component-System runtime: EntityManager, ComponentList,          *)
(* ComponentManager, SystemManager and the Engine facade.                  *)
(*                                                                         *)
(* The two compile-time capacities of type_def.h are scaled down so that   *)
(* the capacity boundaries are reached: kMaxEntities is 65535 and          *)
(* kMaxComponents is 64 in the source.                                     *)
(***************************************************************************)
EXTENDS Integers, Sequences, FiniteSets, TLC

kMaxComponents == 2
kMaxEntities == 2

\* Longest ID pool explored (the queue grows without limit in the source
\* when IDs that are not checked out are destroyed).
MaxQueue == 3

\* Entity is uint32_t: callers may pass IDs the pool never holds.
EntityArgs == 0 .. kMaxEntities
ValidEntities == 0 .. (kMaxEntities - 1)
\* typeid(T).name() of the component types the host uses.
TypeNames == {"float", "int", "char"}
\* typeid(T).name() of the system types the host registers.
SystemNames == {"TestSystem", "OtherSystem"}
\* Component values the host stores.
Values == {1, 2}
\* Signature: std::bitset<kMaxComponents>, as the set of its set bits.
Signatures == SUBSET (0 .. (kMaxComponents - 1))

\* A value-initialised T (make_shared<ComponentList<T>>() zeroes the array).
DefaultValue == 0
\* Slots of components_ plus the memory the array is followed by, which an
\* Insert past the end of the array writes.
Slots == 0 .. kMaxEntities

VARIABLES
    available_entities_,   \* EntityManager: std::queue<Entity>
    entity_signatures_,    \* EntityManager: std::array<Signature, kMaxEntities>
    component_types_,      \* ComponentManager: type name -> ComponentType
    component_lists_,      \* ComponentManager: type name -> ComponentList
    next_component_type_,  \* ComponentManager: next ComponentType to assign
    systems_,              \* SystemManager: system name -> entities_ of the System
    system_signatures_,    \* SystemManager: system name -> Signature
    live,                  \* IDs CreateEntity returned and DestroyEntity has not taken back
    held,                  \* <<type, entity>> -> value of the last successful AddComponent
    last                   \* the Engine call that produced this state, and its outcome

vars == <<available_entities_, entity_signatures_, component_types_, component_lists_,
          next_component_type_, systems_, system_signatures_, live, held, last>>

engine == <<available_entities_, entity_signatures_, component_types_, component_lists_,
            next_component_type_, systems_, system_signatures_>>

---------------------------------------------------------------------------
\* std::map helpers

Contains(m, k) == k \in DOMAIN m

MapPut(m, k, v) == [x \in (DOMAIN m) \cup {k} |-> IF x = k THEN v ELSE m[x]]

MapErase(m, k) == [x \in (DOMAIN m) \ {k} |-> m[x]]

EmptyMap == [x \in {} |-> 0]

---------------------------------------------------------------------------
\* ComponentList<T>

NewComponentList ==
    [next_component_index_ |-> 0,
     components_ |-> [i \in Slots |-> DefaultValue],
     entity_to_component_index_ |-> EmptyMap,
     component_index_to_entity_ |-> EmptyMap]

Insert_Front(list, entity, stored) ==
    LET idx == list.next_component_index_ IN
    [next_component_index_ |-> idx + 1,
     components_ |-> [list.components_ EXCEPT ![0] = stored],
     entity_to_component_index_ |-> MapPut(list.entity_to_component_index_, entity, idx),
     component_index_to_entity_ |-> MapPut(list.component_index_to_entity_, idx, entity)]

\* Insert past the duplicate check. `stored` is what components_[next] holds
\* afterwards: the component, unless the slot lies past the end of the array.
Insert(list, entity, stored) ==
    LET idx == list.next_component_index_ IN
    [next_component_index_ |-> idx + 1,
     components_ |-> [list.components_ EXCEPT ![idx] = stored],
     entity_to_component_index_ |-> MapPut(list.entity_to_component_index_, entity, idx),
     component_index_to_entity_ |-> MapPut(list.component_index_to_entity_, idx, entity)]

RejectDuplicate_WriteFirst(list, entity, component) ==
    [list EXCEPT !.components_[list.entity_to_component_index_[entity]] = component]

\* The list Insert leaves behind when it throws for an entity it already holds.
RejectDuplicate(list, entity, component) == list

\* What components_[next] may hold after Insert wrote `component` there. Insert
\* does not compare next_component_index_ with the array size: a write at
\* index kMaxEntities lands past the end of the std::array, which is undefined
\* behaviour, and a later read of that slot may yield any value.
InsertOutcomes(list, component) ==
    IF list.next_component_index_ < kMaxEntities THEN {component} ELSE Values

Remove_KeepIndex(list, remove_entity) ==
    LET end_component_idx == list.next_component_index_ - 1
        remove_component_idx == list.entity_to_component_index_[remove_entity]
        end_entity == list.component_index_to_entity_[end_component_idx]
        e2i == MapPut(list.entity_to_component_index_, end_entity, remove_component_idx)
        i2e == MapPut(list.component_index_to_entity_, remove_component_idx, end_entity)
    IN
    [next_component_index_ |-> list.next_component_index_ - 1,
     components_ |-> [list.components_ EXCEPT
                        ![remove_component_idx] = list.components_[end_component_idx]],
     entity_to_component_index_ |-> MapErase(e2i, remove_entity),
     component_index_to_entity_ |-> i2e]

Remove_NoCopy(list, remove_entity) ==
    LET end_component_idx == list.next_component_index_ - 1
        remove_component_idx == list.entity_to_component_index_[remove_entity]
        end_entity == list.component_index_to_entity_[end_component_idx]
        e2i == MapPut(list.entity_to_component_index_, end_entity, remove_component_idx)
        i2e == MapPut(list.component_index_to_entity_, remove_component_idx, end_entity)
    IN
    [next_component_index_ |-> list.next_component_index_ - 1,
     components_ |-> list.components_,
     entity_to_component_index_ |-> MapErase(e2i, remove_entity),
     component_index_to_entity_ |-> MapErase(i2e, end_component_idx)]

\* Remove past the presence check.
Remove(list, remove_entity) ==
    LET end_component_idx == list.next_component_index_ - 1
        remove_component_idx == list.entity_to_component_index_[remove_entity]
        end_entity == list.component_index_to_entity_[end_component_idx]
        e2i == MapPut(list.entity_to_component_index_, end_entity, remove_component_idx)
        i2e == MapPut(list.component_index_to_entity_, remove_component_idx, end_entity)
    IN
    [next_component_index_ |-> list.next_component_index_ - 1,
     components_ |-> [list.components_ EXCEPT
                        ![remove_component_idx] = list.components_[end_component_idx]],
     entity_to_component_index_ |-> MapErase(e2i, remove_entity),
     component_index_to_entity_ |-> MapErase(i2e, end_component_idx)]

\* Get past the presence check.
Get(list, entity) == list.components_[list.entity_to_component_index_[entity]]

ListEntityWasDestroyed_Shrink(list, entity) ==
    IF Contains(list.entity_to_component_index_, entity)
    THEN Remove(list, entity)
    ELSE [list EXCEPT !.next_component_index_ = @ - 1]

\* ComponentList::EntityWasDestroyed: Remove behind the presence check.
ListEntityWasDestroyed(list, entity) ==
    IF Contains(list.entity_to_component_index_, entity)
    THEN Remove(list, entity)
    ELSE list

---------------------------------------------------------------------------
\* EntityManager

InitialPool_FromOne == [i \in 1 .. kMaxEntities |-> i]

\* available_entities_ after the constructor pushed 0 .. kMaxEntities - 1.
InitialPool == [i \in 1 .. kMaxEntities |-> i - 1]

CheckEntityOutOfBound(entity) == entity >= kMaxEntities

NextEntity_Back(pool) == pool[Len(pool)]

\* available_entities_.front() of CreateEntity.
NextEntity(pool) == Head(pool)

---------------------------------------------------------------------------
\* ComponentManager

\* component_lists_ after EntityWasDestroyed(entity): every list is told.
ComponentsEntityWasDestroyed(lists, entity) ==
    [n \in DOMAIN lists |-> ListEntityWasDestroyed(lists[n], entity)]

---------------------------------------------------------------------------
\* SystemManager

SignatureOf_Full(sigs, type) ==
    IF Contains(sigs, type) THEN sigs[type] ELSE 0 .. kMaxComponents - 1

\* system_signatures_[type] of EntitySignatureChanged: operator[] reads the
\* entry and creates an empty one for a system whose signature was never set.
SignatureOf(sigs, type) == IF Contains(sigs, type) THEN sigs[type] ELSE {}

SystemsEntityWasDestroyed_Skip(systems, entity) == systems

\* systems_ after EntityWasDestroyed(entity).
SystemsEntityWasDestroyed(systems, entity) ==
    [s \in DOMAIN systems |-> systems[s] \ {entity}]

EntitySignatureChanged_AnyBit(systems, sigs, entity, entity_signature) ==
    [s \in DOMAIN systems |->
        LET system_signature == SignatureOf(sigs, s)
            compatibility_sig == entity_signature \cap system_signature
        IN IF compatibility_sig # {}
           THEN systems[s] \cup {entity}
           ELSE systems[s] \ {entity}]

\* systems_ after EntitySignatureChanged(entity, entity_signature).
EntitySignatureChanged(systems, sigs, entity, entity_signature) ==
    [s \in DOMAIN systems |->
        LET system_signature == SignatureOf(sigs, s)
            compatibility_sig == entity_signature \cap system_signature
        IN IF compatibility_sig = system_signature
           THEN systems[s] \cup {entity}
           ELSE systems[s] \ {entity}]

\* system_signatures_ after EntitySignatureChanged: an entry for every system.
SignaturesTouched(systems, sigs) ==
    [s \in (DOMAIN sigs) \cup (DOMAIN systems) |-> SignatureOf(sigs, s)]

---------------------------------------------------------------------------
\* Engine

NoEntity == -1
NoName == "-"

\* The stores that hold an entry for entity.
StoresHolding(entity) ==
    {T \in DOMAIN component_lists_ :
        Contains(component_lists_[T].entity_to_component_index_, entity)}

\* The systems whose entities_ contains entity.
SystemsHolding(entity) == {S \in DOMAIN systems_ : entity \in systems_[S]}

\* The record of a call: its name, its entity and type arguments (for
\* CreateEntity the entity is the returned ID), its outcome, and what held of the
\* entity and of the type when the call was made.
Call(op, entity, type, res) ==
    [op |-> op, e |-> entity, t |-> type, res |-> res,
     known |-> type \in (DOMAIN component_types_) \cup (DOMAIN systems_),
     was_live |-> entity \in live,
     had |-> StoresHolding(entity),
     was_in |-> SystemsHolding(entity)]

Init ==
    /\ available_entities_ = InitialPool
    /\ entity_signatures_ = [e \in ValidEntities |-> {}]
    /\ component_types_ = EmptyMap
    /\ component_lists_ = EmptyMap
    /\ next_component_type_ = 0
    /\ systems_ = EmptyMap
    /\ system_signatures_ = EmptyMap
    /\ live = {}
    /\ held = EmptyMap
    /\ last = Call("Engine", NoEntity, NoName, "ok")

CreateEntity ==
    IF available_entities_ = <<>>
    THEN /\ last' = Call("CreateEntity", NoEntity, NoName, "CapacityExceeded")
         /\ UNCHANGED <<engine, live, held>>
    ELSE LET entity == NextEntity(available_entities_) IN
         /\ available_entities_' = Tail(available_entities_)
         /\ live' = live \cup {entity}
         /\ last' = Call("CreateEntity", entity, NoName, "ok")
         /\ UNCHANGED <<entity_signatures_, component_types_, component_lists_,
                        next_component_type_, systems_, system_signatures_, held>>

DestroyEntity_Front(entity) ==
    IF CheckEntityOutOfBound(entity)
    THEN /\ last' = Call("DestroyEntity", entity, NoName, "OutOfRange")
         /\ UNCHANGED <<engine, live, held>>
    ELSE /\ Len(available_entities_) < MaxQueue
         /\ entity_signatures_' = [entity_signatures_ EXCEPT ![entity] = {}]
         /\ available_entities_' = <<entity>> \o available_entities_
         /\ component_lists_' = ComponentsEntityWasDestroyed(component_lists_, entity)
         /\ systems_' = SystemsEntityWasDestroyed(systems_, entity)
         /\ live' = live \ {entity}
         /\ held' = [k \in {k \in DOMAIN held : k[2] # entity} |-> held[k]]
         /\ last' = Call("DestroyEntity", entity, NoName, "ok")
         /\ UNCHANGED <<component_types_, next_component_type_, system_signatures_>>

DestroyEntity(entity) ==
    IF CheckEntityOutOfBound(entity)
    THEN /\ last' = Call("DestroyEntity", entity, NoName, "OutOfRange")
         /\ UNCHANGED <<engine, live, held>>
    ELSE /\ Len(available_entities_) < MaxQueue
         /\ entity_signatures_' = [entity_signatures_ EXCEPT ![entity] = {}]
         /\ available_entities_' = Append(available_entities_, entity)
         /\ component_lists_' = ComponentsEntityWasDestroyed(component_lists_, entity)
         /\ systems_' = SystemsEntityWasDestroyed(systems_, entity)
         /\ live' = live \ {entity}
         /\ held' = [k \in {k \in DOMAIN held : k[2] # entity} |-> held[k]]
         /\ last' = Call("DestroyEntity", entity, NoName, "ok")
         /\ UNCHANGED <<component_types_, next_component_type_, system_signatures_>>

RegisterComponent_Replace(T) ==
    /\ last' = Call("RegisterComponent", NoEntity, T, "ok")
    /\ UNCHANGED <<available_entities_, entity_signatures_, systems_, system_signatures_,
                   live, held>>
    /\ component_lists_' = MapPut(component_lists_, T, NewComponentList)
    /\ component_types_' = MapPut(component_types_, T, next_component_type_)
    /\ next_component_type_' = next_component_type_ + 1

RegisterComponent(T) ==
    /\ last' = Call("RegisterComponent", NoEntity, T, "ok")
    /\ UNCHANGED <<available_entities_, entity_signatures_, systems_, system_signatures_,
                   live, held>>
    /\ IF Contains(component_types_, T)
       THEN UNCHANGED <<component_types_, component_lists_, next_component_type_>>
       ELSE /\ component_lists_' = MapPut(component_lists_, T, NewComponentList)
            /\ component_types_' = MapPut(component_types_, T, next_component_type_)
            /\ next_component_type_' = next_component_type_ + 1

TypesAfterAdd_Skip(T) ==
    IF Contains(component_types_, T) THEN component_types_
    ELSE MapPut(component_types_, T, next_component_type_ + 1)

\* ComponentManager after the registration AddComponent<T> does for an unseen T.
TypesAfterAdd(T) ==
    IF Contains(component_types_, T) THEN component_types_
    ELSE MapPut(component_types_, T, next_component_type_)

ListsAfterAdd(T) ==
    IF Contains(component_types_, T) THEN component_lists_
    ELSE MapPut(component_lists_, T, NewComponentList)

NextTypeAfterAdd(T) ==
    IF Contains(component_types_, T) THEN next_component_type_
    ELSE next_component_type_ + 1

\* The first step of Engine::AddComponent / RemoveComponent that throws after
\* the component list was changed, or "ok".
SignatureStepError(entity, component_id) ==
    IF CheckEntityOutOfBound(entity) THEN "OutOfRange"
    ELSE IF component_id >= kMaxComponents THEN "BitOutOfRange"
    ELSE "ok"

AddComponent(T, entity, component) ==
    LET types == TypesAfterAdd(T)
        lists == ListsAfterAdd(T)
        list == lists[T]
        component_id == types[T]
        err == SignatureStepError(entity, component_id)
    IN
    /\ component_types_' = types
    /\ next_component_type_' = NextTypeAfterAdd(T)
    /\ UNCHANGED <<available_entities_, live>>
    /\ IF Contains(list.entity_to_component_index_, entity)
       THEN /\ component_lists_' =
                   [lists EXCEPT ![T] = RejectDuplicate(list, entity, component)]
            /\ last' = Call("AddComponent", entity, T, "DuplicateEntity")
            /\ UNCHANGED <<entity_signatures_, systems_, system_signatures_, held>>
       ELSE /\ \E stored \in InsertOutcomes(list, component) :
                 component_lists_' = [lists EXCEPT ![T] = Insert(list, entity, stored)]
            /\ last' = Call("AddComponent", entity, T, err)
            /\ IF err # "ok"
               THEN UNCHANGED <<entity_signatures_, systems_, system_signatures_, held>>
               ELSE LET entity_signature == entity_signatures_[entity] \cup {component_id} IN
                    /\ entity_signatures_' =
                           [entity_signatures_ EXCEPT ![entity] = entity_signature]
                    /\ systems_' = EntitySignatureChanged(systems_, system_signatures_,
                                                          entity, entity_signature)
                    /\ system_signatures_' = SignaturesTouched(systems_, system_signatures_)
                    /\ held' = MapPut(held, <<T, entity>>, component)

RemoveComponent(T, entity) ==
    /\ UNCHANGED <<available_entities_, component_types_, next_component_type_, live>>
    /\ held' = MapErase(held, <<T, entity>>)
    /\ IF ~Contains(component_lists_, T)
       THEN /\ last' = Call("RemoveComponent", entity, T, "UnregisteredType")
            /\ UNCHANGED <<entity_signatures_, component_lists_, systems_, system_signatures_>>
       ELSE IF ~Contains(component_lists_[T].entity_to_component_index_, entity)
       THEN /\ last' = Call("RemoveComponent", entity, T, "NotFound")
            /\ UNCHANGED <<entity_signatures_, component_lists_, systems_, system_signatures_>>
       ELSE LET component_id == component_types_[T]
                err == SignatureStepError(entity, component_id)
            IN
            /\ component_lists_' =
                   [component_lists_ EXCEPT ![T] = Remove(component_lists_[T], entity)]
            /\ last' = Call("RemoveComponent", entity, T, err)
            /\ IF err # "ok"
               THEN UNCHANGED <<entity_signatures_, systems_, system_signatures_>>
               ELSE LET entity_signature == entity_signatures_[entity] \ {component_id} IN
                    /\ entity_signatures_' =
                           [entity_signatures_ EXCEPT ![entity] = entity_signature]
                    /\ systems_' = EntitySignatureChanged(systems_, system_signatures_,
                                                          entity, entity_signature)
                    /\ system_signatures_' = SignaturesTouched(systems_, system_signatures_)

RegisterSystem_Overwrite(S) ==
    /\ UNCHANGED <<available_entities_, entity_signatures_, component_types_,
                   component_lists_, next_component_type_, system_signatures_, live, held>>
    /\ last' = Call("RegisterSystem", NoEntity, S, "ok")
    /\ systems_' = MapPut(systems_, S, {})

\* RegisterSystem(): the registered System is default-constructed.
RegisterSystem(S) ==
    /\ UNCHANGED <<available_entities_, entity_signatures_, component_types_,
                   component_lists_, next_component_type_, system_signatures_, live, held>>
    /\ IF Contains(systems_, S)
       THEN /\ last' = Call("RegisterSystem", NoEntity, S, "AlreadyRegistered")
            /\ UNCHANGED systems_
       ELSE /\ last' = Call("RegisterSystem", NoEntity, S, "ok")
            /\ systems_' = MapPut(systems_, S, {})

SetSystemSignature_Early(S, signature) ==
    /\ UNCHANGED <<available_entities_, entity_signatures_, component_types_,
                   component_lists_, next_component_type_, systems_, live, held>>
    /\ system_signatures_' = MapPut(system_signatures_, S, signature)
    /\ last' = Call("SetSystemSignature", NoEntity, S,
                    IF Contains(systems_, S) THEN "ok" ELSE "UnregisteredType")

SetSystemSignature(S, signature) ==
    /\ UNCHANGED <<available_entities_, entity_signatures_, component_types_,
                   component_lists_, next_component_type_, systems_, live, held>>
    /\ IF ~Contains(systems_, S)
       THEN /\ last' = Call("SetSystemSignature", NoEntity, S, "UnregisteredType")
            /\ UNCHANGED system_signatures_
       ELSE /\ last' = Call("SetSystemSignature", NoEntity, S, "ok")
            /\ system_signatures_' = MapPut(system_signatures_, S, signature)

GetComponent_Default(T, entity) ==
    IF ~Contains(component_lists_, T) THEN [res |-> "UnregisteredType", value |-> DefaultValue]
    ELSE IF ~Contains(component_lists_[T].entity_to_component_index_, entity)
    THEN [res |-> "ok", value |-> DefaultValue]
    ELSE [res |-> "ok", value |-> Get(component_lists_[T], entity)]

\* Outcome of Engine::GetComponent<T>(entity): the error, or "ok" and the value.
GetComponent(T, entity) ==
    IF ~Contains(component_lists_, T) THEN [res |-> "UnregisteredType", value |-> DefaultValue]
    ELSE IF ~Contains(component_lists_[T].entity_to_component_index_, entity)
    THEN [res |-> "NotFound", value |-> DefaultValue]
    ELSE [res |-> "ok", value |-> Get(component_lists_[T], entity)]

HasComponent_NoTypeCheck(T, entity) ==
    LET component_id == IF Contains(component_types_, T) THEN component_types_[T] ELSE 0 IN
    IF component_id >= kMaxComponents THEN [res |-> "BitOutOfRange", value |-> FALSE]
    ELSE IF CheckEntityOutOfBound(entity) THEN [res |-> "OutOfRange", value |-> FALSE]
    ELSE [res |-> "ok", value |-> component_id \in entity_signatures_[entity]]

\* Outcome of Engine::HasComponent<T>(entity): the error, or "ok" and the answer.
HasComponent(T, entity) ==
    IF ~Contains(component_types_, T) THEN [res |-> "UnregisteredType", value |-> FALSE]
    ELSE IF component_types_[T] >= kMaxComponents
    THEN [res |-> "BitOutOfRange", value |-> FALSE]
    ELSE IF CheckEntityOutOfBound(entity) THEN [res |-> "OutOfRange", value |-> FALSE]
    ELSE [res |-> "ok", value |-> component_types_[T] \in entity_signatures_[entity]]

\* Outcome of Engine::GetComponentType<T>(): the error, or "ok" and the ID.
GetComponentType(T) ==
    IF ~Contains(component_types_, T) THEN [res |-> "UnregisteredType", value |-> 0]
    ELSE [res |-> "ok", value |-> component_types_[T]]

\* Outcome of Engine::GetSystem<T>(): the error, or "ok" and the entities_ of
\* the System the returned pointer refers to.
GetSystem(S) ==
    IF ~Contains(systems_, S) THEN [res |-> "UnregisteredType", value |-> {}]
    ELSE [res |-> "ok", value |-> systems_[S]]

\* RegisterSystem(T system): the registered System is a copy of the instance
\* the host passes, `system` being that instance's entities_.
RegisterSystemInstance(S, system) ==
    /\ UNCHANGED <<available_entities_, entity_signatures_, component_types_,
                   component_lists_, next_component_type_, system_signatures_, live, held>>
    /\ IF Contains(systems_, S)
       THEN /\ last' = Call("RegisterSystem", NoEntity, S, "AlreadyRegistered")
            /\ UNCHANGED systems_
       ELSE /\ last' = Call("RegisterSystem", NoEntity, S, "ok")
            /\ systems_' = MapPut(systems_, S, system)

\* The calls that only read: each leaves the engine as it is.
CallGetComponent(T, entity) ==
    /\ last' = Call("GetComponent", entity, T, GetComponent(T, entity).res)
    /\ UNCHANGED <<engine, live, held>>

CallHasComponent(T, entity) ==
    /\ last' = Call("HasComponent", entity, T, HasComponent(T, entity).res)
    /\ UNCHANGED <<engine, live, held>>

CallGetComponentType(T) ==
    /\ last' = Call("GetComponentType", NoEntity, T, GetComponentType(T).res)
    /\ UNCHANGED <<engine, live, held>>

CallGetSystem(S) ==
    /\ last' = Call("GetSystem", NoEntity, S, GetSystem(S).res)
    /\ UNCHANGED <<engine, live, held>>

\* The Engine calls a host makes, with its arguments drawn from the given sets.
Calls(Es, Ts, Vs, Ss) ==
    \/ CreateEntity
    \/ \E entity \in Es : DestroyEntity(entity)
    \/ \E T \in Ts : RegisterComponent(T)
    \/ \E T \in Ts, entity \in Es, component \in Vs : AddComponent(T, entity, component)
    \/ \E T \in Ts, entity \in Es : RemoveComponent(T, entity)
    \/ \E S \in Ss : RegisterSystem(S)
    \/ \E S \in Ss, signature \in Signatures : SetSystemSignature(S, signature)

\* A host that uses one component type and no system, with every kind of entity ID.
NextStore == Calls(EntityArgs, {"float"}, Values, {})
SpecStore == Init /\ [][NextStore]_vars

\* A host that uses one entity ID, two component types and two systems.
NextSystems == Calls({0}, {"float", "int"}, {1}, SystemNames)
SpecSystems == Init /\ [][NextSystems]_vars

\* A host that uses one component type and one system, with a valid and an
\* out-of-range entity ID.
Next == Calls({0, kMaxEntities}, {"float"}, Values, {"TestSystem"})
Spec == Init /\ [][Next]_vars

\* The reading calls of a host that uses the component types Ts.
ComponentReads(Es, Ts) ==
    \/ \E T \in Ts, entity \in Es : CallGetComponent(T, entity)
    \/ \E T \in Ts, entity \in Es : CallHasComponent(T, entity)
    \/ \E T \in Ts : CallGetComponentType(T)

\* A host that uses three component types (one more than kMaxComponents) and
\* no system, and reads components back.
NextTypes == Calls({0}, TypeNames, {1}, {}) \/ ComponentReads({0}, TypeNames)
SpecTypes == Init /\ [][NextTypes]_vars

\* A host that registers default-constructed and ready-made systems and
\* fetches them.
NextRegistry ==
    \/ Calls({0}, {"float"}, {1}, SystemNames)
    \/ \E S \in SystemNames, system \in SUBSET {0} : RegisterSystemInstance(S, system)
    \/ \E S \in SystemNames : CallGetSystem(S)
SpecRegistry == Init /\ [][NextRegistry]_vars

---------------------------------------------------------------------------
\* Engine::AddComponent, RemoveComponent and DestroyEntity statement by
\* statement. While such a call is between two statements, last.res names the
\* statement it is at ("line2", "line3") instead of an outcome.

Idle == last.res \notin {"line2", "line3"}

At(op, line) == last.op = op /\ last.res = line

\* component_manager_->AddComponent<T>(entity, component);
AddComponentLine1(T, entity, component) ==
    LET types == TypesAfterAdd(T)
        lists == ListsAfterAdd(T)
        list == lists[T]
    IN
    /\ Idle
    /\ component_types_' = types
    /\ next_component_type_' = NextTypeAfterAdd(T)
    /\ UNCHANGED <<available_entities_, entity_signatures_, systems_, system_signatures_, live>>
    /\ IF Contains(list.entity_to_component_index_, entity)
       THEN /\ component_lists_' =
                   [lists EXCEPT ![T] = RejectDuplicate(list, entity, component)]
            /\ last' = Call("AddComponent", entity, T, "DuplicateEntity")
            /\ UNCHANGED held
       ELSE /\ \E stored \in InsertOutcomes(list, component) :
                 component_lists_' = [lists EXCEPT ![T] = Insert(list, entity, stored)]
            /\ last' = Call("AddComponent", entity, T, "line2")
            /\ held' = MapPut(held, <<T, entity>>, component)

\* GetComponentType<T>(); GetSignature(entity); set(component_id, true);
\* SetSignature(entity, entity_signature);
AddComponentLine2 ==
    LET component_id == component_types_[last.t]
        err == SignatureStepError(last.e, component_id)
    IN
    /\ At("AddComponent", "line2")
    /\ UNCHANGED <<available_entities_, component_types_, component_lists_,
                   next_component_type_, systems_, system_signatures_, live>>
    /\ IF err # "ok"
       THEN /\ last' = [last EXCEPT !.res = err]
            /\ held' = MapErase(held, <<last.t, last.e>>)
            /\ UNCHANGED entity_signatures_
       ELSE /\ last' = [last EXCEPT !.res = "line3"]
            /\ entity_signatures_' =
                   [entity_signatures_ EXCEPT ![last.e] = @ \cup {component_id}]
            /\ UNCHANGED held

\* system_manager_->EntitySignatureChanged(entity, entity_signature);
\* the same statement ends RemoveComponent.
SignatureChangedLine3(op) ==
    /\ At(op, "line3")
    /\ systems_' = EntitySignatureChanged(systems_, system_signatures_,
                                          last.e, entity_signatures_[last.e])
    /\ system_signatures_' = SignaturesTouched(systems_, system_signatures_)
    /\ last' = [last EXCEPT !.res = "ok"]
    /\ UNCHANGED <<available_entities_, entity_signatures_, component_types_,
                   component_lists_, next_component_type_, live, held>>

\* component_manager_->RemoveComponent<T>(entity);
RemoveComponentLine1(T, entity) ==
    /\ Idle
    /\ held' = MapErase(held, <<T, entity>>)
    /\ UNCHANGED <<available_entities_, entity_signatures_, component_types_,
                   next_component_type_, systems_, system_signatures_, live>>
    /\ IF ~Contains(component_lists_, T)
       THEN /\ last' = Call("RemoveComponent", entity, T, "UnregisteredType")
            /\ UNCHANGED component_lists_
       ELSE IF ~Contains(component_lists_[T].entity_to_component_index_, entity)
       THEN /\ last' = Call("RemoveComponent", entity, T, "NotFound")
            /\ UNCHANGED component_lists_
       ELSE /\ last' = Call("RemoveComponent", entity, T, "line2")
            /\ component_lists_' =
                   [component_lists_ EXCEPT ![T] = Remove(component_lists_[T], entity)]

\* GetComponentType<T>(); GetSignature(entity); set(component_id, false);
\* SetSignature(entity, entity_signature);
RemoveComponentLine2 ==
    LET component_id == component_types_[last.t]
        err == SignatureStepError(last.e, component_id)
    IN
    /\ At("RemoveComponent", "line2")
    /\ UNCHANGED <<available_entities_, component_types_, component_lists_,
                   next_component_type_, systems_, system_signatures_, live, held>>
    /\ IF err # "ok"
       THEN /\ last' = [last EXCEPT !.res = err]
            /\ UNCHANGED entity_signatures_
       ELSE /\ last' = [last EXCEPT !.res = "line3"]
            /\ entity_signatures_' =
                   [entity_signatures_ EXCEPT ![last.e] = @ \ {component_id}]

DestroyEntityLine1_Purge(entity) ==
    /\ Idle
    /\ UNCHANGED <<component_types_, next_component_type_, systems_, system_signatures_>>
    /\ IF CheckEntityOutOfBound(entity)
       THEN /\ last' = Call("DestroyEntity", entity, NoName, "OutOfRange")
            /\ UNCHANGED <<available_entities_, entity_signatures_, component_lists_,
                           live, held>>
       ELSE /\ Len(available_entities_) < MaxQueue
            /\ component_lists_' = ComponentsEntityWasDestroyed(component_lists_, entity)
            /\ entity_signatures_' = [entity_signatures_ EXCEPT ![entity] = {}]
            /\ available_entities_' = Append(available_entities_, entity)
            /\ live' = live \ {entity}
            /\ held' = [k \in {k \in DOMAIN held : k[2] # entity} |-> held[k]]
            /\ last' = Call("DestroyEntity", entity, NoName, "line2")

\* entity_manager_->DestroyEntity(entity);
DestroyEntityLine1(entity) ==
    /\ Idle
    /\ UNCHANGED <<component_types_, component_lists_, next_component_type_,
                   systems_, system_signatures_>>
    /\ IF CheckEntityOutOfBound(entity)
       THEN /\ last' = Call("DestroyEntity", entity, NoName, "OutOfRange")
            /\ UNCHANGED <<available_entities_, entity_signatures_, live, held>>
       ELSE /\ Len(available_entities_) < MaxQueue
            /\ entity_signatures_' = [entity_signatures_ EXCEPT ![entity] = {}]
            /\ available_entities_' = Append(available_entities_, entity)
            /\ live' = live \ {entity}
            /\ held' = [k \in {k \in DOMAIN held : k[2] # entity} |-> held[k]]
            /\ last' = Call("DestroyEntity", entity, NoName, "line2")

\* component_manager_->EntityWasDestroyed(entity);
DestroyEntityLine2 ==
    /\ At("DestroyEntity", "line2")
    /\ component_lists_' = ComponentsEntityWasDestroyed(component_lists_, last.e)
    /\ last' = [last EXCEPT !.res = "line3"]
    /\ UNCHANGED <<available_entities_, entity_signatures_, component_types_,
                   next_component_type_, systems_, system_signatures_, live, held>>

\* system_manager_->EntityWasDestroyed(entity);
DestroyEntityLine3 ==
    /\ At("DestroyEntity", "line3")
    /\ systems_' = SystemsEntityWasDestroyed(systems_, last.e)
    /\ last' = [last EXCEPT !.res = "ok"]
    /\ UNCHANGED <<available_entities_, entity_signatures_, component_types_,
                   component_lists_, next_component_type_, system_signatures_, live, held>>

\* A host whose AddComponent, RemoveComponent and DestroyEntity calls are
\* followed statement by statement; one call runs at a time.
NextPipeline ==
    \/ Idle /\ CreateEntity
    \/ Idle /\ RegisterSystem("TestSystem")
    \/ \E signature \in Signatures : Idle /\ SetSystemSignature("TestSystem", signature)
    \/ \E entity \in {0, kMaxEntities} : AddComponentLine1("float", entity, 1)
    \/ AddComponentLine2
    \/ SignatureChangedLine3("AddComponent")
    \/ \E entity \in {0, kMaxEntities} : RemoveComponentLine1("float", entity)
    \/ RemoveComponentLine2
    \/ SignatureChangedLine3("RemoveComponent")
    \/ \E entity \in {0, kMaxEntities} : DestroyEntityLine1(entity)
    \/ DestroyEntityLine2
    \/ DestroyEntityLine3
SpecPipeline == Init /\ [][NextPipeline]_vars

\* A host that destroys only entities it created and has not destroyed yet;
\* its component calls take every kind of entity ID.
NextLiveOnly ==
    \/ CreateEntity
    \/ \E entity \in live : DestroyEntity(entity)
    \/ RegisterComponent("float")
    \/ \E entity \in EntityArgs, component \in Values :
          AddComponent("float", entity, component)
    \/ \E entity \in EntityArgs : RemoveComponent("float", entity)
SpecLiveOnly == Init /\ [][NextLiveOnly]_vars

\* A host with two entities, two component types and a system that requires
\* the first type; each entity's components carry a value of its own, and
\* only entities that are live are destroyed.
NextFrame ==
    \/ CreateEntity
    \/ \E entity \in live : DestroyEntity(entity)
    \/ \E T \in {"float", "int"}, entity \in ValidEntities :
          AddComponent(T, entity, entity + 1)
    \/ \E T \in {"float", "int"}, entity \in ValidEntities : RemoveComponent(T, entity)
    \/ RegisterSystem("TestSystem")
    \/ SetSystemSignature("TestSystem", {0})
SpecFrame == Init /\ [][NextFrame]_vars

---------------------------------------------------------------------------
\* Properties

\* A component list is packed: the occupied slots are [0, count), and the two
\* index maps are inverse bijections between the held entities and those slots.
Packed(list) ==
    LET count == list.next_component_index_
        e2i == list.entity_to_component_index_
        i2e == list.component_index_to_entity_
    IN
    /\ DOMAIN i2e = 0 .. (count - 1)
    /\ Cardinality(DOMAIN e2i) = count
    /\ \A e \in DOMAIN e2i : e2i[e] \in DOMAIN i2e /\ i2e[e2i[e]] = e
    /\ \A i \in DOMAIN i2e : i2e[i] \in DOMAIN e2i /\ e2i[i2e[i]] = i

\* C1: packing invariant. In every state reached by Insert, Remove and
\* EntityWasDestroyed calls, successful or failing, every component store
\* occupies exactly the slots [0, count), count being the number of entities it
\* holds, and its slot-to-entity map is the exact inverse of its
\* entity-to-slot map.
C1_Packing == \A T \in DOMAIN component_lists_ : Packed(component_lists_[T])

\* C1 witness: a removal has just left two entities in a store that held three.
C1_Witness ==
    /\ last.op = "RemoveComponent" /\ last.res = "ok"
    /\ component_lists_[last.t].next_component_index_ = 2

\* C2: signature/system consistency. Right after a completed AddComponent or
\* RemoveComponent on E, E is in a registered system's set iff E's signature
\* has every bit of the system's signature; right after a completed
\* DestroyEntity on E, E is in no system's set.
C2_SignatureSystemConsistency ==
    /\ (last.op \in {"AddComponent", "RemoveComponent"} /\ last.res = "ok") =>
           \A S \in DOMAIN systems_ :
               last.e \in systems_[S] <=>
                   (entity_signatures_[last.e] \cap SignatureOf(system_signatures_, S))
                       = SignatureOf(system_signatures_, S)
    /\ (last.op = "DestroyEntity" /\ last.res = "ok") =>
           \A S \in DOMAIN systems_ : last.e \notin systems_[S]

\* C2 witness: with both systems registered, a RemoveComponent has taken the
\* entity out of a system that held it and left it in another system, one that
\* requires a bit the entity still has.
C2_Witness ==
    /\ last.op = "RemoveComponent" /\ last.res = "ok"
    /\ DOMAIN systems_ = SystemNames
    /\ \E S1, S2 \in DOMAIN systems_ :
          /\ last.e \in systems_[S1] /\ SignatureOf(system_signatures_, S1) # {}
          /\ last.e \notin systems_[S2] /\ S2 \in last.was_in

\* The entities a system is documented to hold: the live entities that have
\* every component the system requires.
Compatible(S) ==
    {e \in live : SignatureOf(system_signatures_, S) \subseteq entity_signatures_[e]}

\* C3: between any two Engine calls, each registered system's entity set is
\* the set of live entities whose signature contains the system's signature.
C3_SetsReflectSignatures == \A S \in DOMAIN systems_ : systems_[S] = Compatible(S)

\* C4: CreateEntity never returns an ID that is live.
C4_NoLiveIdReissued ==
    ~(last.op = "CreateEntity" /\ last.res = "ok" /\ last.was_live)

\* The pool of a fresh engine after n CreateEntity calls.
PoolAfter(n) == [i \in 1 .. (kMaxEntities - n) |-> i + n - 1]

\* C5: capacity boundary. A fresh engine holds the IDs 0 .. kMaxEntities-1;
\* while nothing was destroyed the n-th CreateEntity returns n-1 and leaves the
\* IDs n .. kMaxEntities-1, so the first kMaxEntities calls return distinct IDs
\* below kMaxEntities and the next one fails; CreateEntity fails iff the pool
\* is empty, and then changes nothing.
C5_CapacityBoundary ==
    /\ available_entities_ = PoolAfter(0)
    /\ [][last'.op = "CreateEntity" =>
            /\ (last'.res = "CapacityExceeded") <=> (available_entities_ = <<>>)
            /\ last'.res \in {"ok", "CapacityExceeded"}
            /\ last'.res = "CapacityExceeded" => UNCHANGED <<engine, live>>
            /\ \A n \in 0 .. (kMaxEntities - 1) :
                   available_entities_ = PoolAfter(n) =>
                       /\ last'.res = "ok" /\ last'.e = n
                       /\ available_entities_' = PoolAfter(n + 1)]_vars

\* C5 witness: kMaxEntities IDs are out, none was destroyed, and the next
\* CreateEntity has failed.
C5_Witness ==
    /\ last.op = "CreateEntity" /\ last.res = "CapacityExceeded"
    /\ live = ValidEntities
    /\ available_entities_ = <<>>

\* C6: Add/Get round trip. From a successful AddComponent<T>(E, v) until
\* RemoveComponent<T>(E) or DestroyEntity(E) is called, GetComponent<T>(E)
\* returns v and HasComponent<T>(E) returns true.
C6_AddGetRoundTrip ==
    \A k \in DOMAIN held :
        /\ GetComponent(k[1], k[2]) = [res |-> "ok", value |-> held[k]]
        /\ HasComponent(k[1], k[2]) = [res |-> "ok", value |-> TRUE]

\* The calls that run ComponentList::Remove(E) on the store of T.
RemoveRan(T) ==
    \/ last'.op = "RemoveComponent" /\ last'.t = T
         /\ last'.res \notin {"UnregisteredType", "NotFound"}
    \/ last'.op = "DestroyEntity" /\ last'.res = "ok" /\ T \in last'.had

\* C7: swap-remove. Remove(E), E in slot i of a store with count entries,
\* leaves the entity of slot count-1 in slot i with its value, drops E from
\* both maps, lowers count by one and leaves every other entity in its slot
\* with its value; when E is in slot count-1 nothing is relocated.
C7_SwapRemove ==
    [][\A T \in DOMAIN component_lists_ : RemoveRan(T) =>
          LET old == component_lists_[T]
              new == component_lists_'[T]
              E == last'.e
              count == old.next_component_index_
              i == old.entity_to_component_index_[E]
              end_entity == old.component_index_to_entity_[count - 1]
          IN
          /\ new.next_component_index_ = count - 1
          /\ DOMAIN new.entity_to_component_index_ =
                 (DOMAIN old.entity_to_component_index_) \ {E}
          /\ DOMAIN new.component_index_to_entity_ = 0 .. (count - 2)
          /\ end_entity # E =>
                 /\ new.entity_to_component_index_[end_entity] = i
                 /\ new.component_index_to_entity_[i] = end_entity
                 /\ Get(new, end_entity) = Get(old, end_entity)
          /\ \A F \in (DOMAIN old.entity_to_component_index_) \ {E, end_entity} :
                 /\ new.entity_to_component_index_[F] = old.entity_to_component_index_[F]
                 /\ Get(new, F) = Get(old, F)
          /\ Packed(new)]_vars

\* C7 witness: a removal has left two entities with different values in a
\* store that held three.
C7_Witness ==
    /\ last.op = "RemoveComponent" /\ last.res = "ok"
    /\ LET list == component_lists_[last.t] IN
          /\ list.next_component_index_ = 2
          /\ list.components_[0] # list.components_[1]

\* C8: after Engine::DestroyEntity(E), E's signature is empty, E is in the
\* pool, GetComponent<T>(E) fails with NotFound for every registered T, and E
\* is in no system's set.
C8_DestroyPurges ==
    (last.op = "DestroyEntity" /\ last.res = "ok") =>
        /\ entity_signatures_[last.e] = {}
        /\ \E i \in 1 .. Len(available_entities_) : available_entities_[i] = last.e
        /\ \A T \in DOMAIN component_lists_ : GetComponent(T, last.e).res = "NotFound"
        /\ \A S \in DOMAIN systems_ : last.e \notin systems_[S]

\* C8 witness: the destroyed entity was live, held a component of each of two
\* types and was in two systems.
C8_Witness ==
    /\ last.op = "DestroyEntity" /\ last.res = "ok"
    /\ last.was_live
    /\ Cardinality(last.had) = 2
    /\ Cardinality(last.was_in) = 2

\* C9: duplicate insert. AddComponent<T>(E, v2) for an E that holds a T fails
\* with DuplicateEntity and leaves the stored value, the store's count and
\* maps, E's signature and every system's set as they were.
C9_DuplicateInsert ==
    [][(last'.op = "AddComponent" /\ last'.t \in last'.had) =>
           /\ last'.res = "DuplicateEntity"
           /\ UNCHANGED engine]_vars

\* C9 witness: a duplicate AddComponent was refused for an entity that is in a
\* system's set and holds the value 1; the other value exists to be offered.
C9_Witness ==
    /\ last.op = "AddComponent" /\ last.res = "DuplicateEntity"
    /\ last.was_in # {}
    /\ GetComponent(last.t, last.e).value = 1

\* C10: failure atomicity. An AddComponent, RemoveComponent or DestroyEntity
\* that fails leaves every store, signature, the pool and every system's set
\* as before the call.
C10_FailureAtomicity ==
    [][(last'.op \in {"AddComponent", "RemoveComponent", "DestroyEntity"}
          /\ last'.res # "ok") => UNCHANGED engine]_vars

\* C11: DestroyEntity(E) fails with OutOfRange, the pool and every signature
\* unchanged, when E >= kMaxEntities or E is not checked out of the pool; on
\* a live E it empties E's signature and puts E back into the pool once.
C11_DestroyRejectsNonLive ==
    [][last'.op = "DestroyEntity" =>
           IF last'.e >= kMaxEntities \/ ~last'.was_live
           THEN /\ last'.res = "OutOfRange"
                /\ UNCHANGED <<available_entities_, entity_signatures_>>
           ELSE /\ last'.res = "ok"
                /\ entity_signatures_'[last'.e] = {}
                /\ available_entities_' = Append(available_entities_, last'.e)]_vars

\* C12: an entity ID is valid only while checked out. AddComponent and
\* RemoveComponent (and the GetSignature and SetSignature they make) with an
\* ID that is not live are refused with an error and store no component and
\* no signature.
C12_NonLiveIdRefused ==
    [][(last'.op \in {"AddComponent", "RemoveComponent"} /\ ~last'.was_live) =>
           /\ last'.res # "ok"
           /\ UNCHANGED <<component_lists_, entity_signatures_>>]_vars

\* C13, on the stores and systems of a state: EntityWasDestroyed for an entity
\* a store does not hold returns the store as it is, for one it holds it is
\* Remove, and a second application changes nothing more; likewise a system's
\* set without the entity stays as it is and twice is once.
C13_Teardown ==
    \A entity \in EntityArgs :
        /\ \A T \in DOMAIN component_lists_ :
              LET list == component_lists_[T]
                  once == ListEntityWasDestroyed(list, entity)
              IN /\ (~Contains(list.entity_to_component_index_, entity) => once = list)
                 /\ (Contains(list.entity_to_component_index_, entity)
                       => once = Remove(list, entity))
                 /\ ListEntityWasDestroyed(once, entity) = once
        /\ LET once == SystemsEntityWasDestroyed(systems_, entity)
           IN /\ \A S \in DOMAIN systems_ : entity \notin systems_[S] => once[S] = systems_[S]
              /\ DOMAIN once = DOMAIN systems_
              /\ SystemsEntityWasDestroyed(once, entity) = once

\* C13: idempotent teardown. The EntityWasDestroyed broadcast of DestroyEntity
\* raises no error and leaves every store and every system's set that does not
\* hold the entity unchanged; on a store that holds it, it has the effect of
\* Remove; applying it twice is applying it once.
C13_IdempotentTeardown ==
    /\ []C13_Teardown
    /\ [][(last'.op = "DestroyEntity" /\ last'.e < kMaxEntities) =>
             /\ last'.res = "ok"
             /\ \A T \in DOMAIN component_lists_ :
                   component_lists_'[T] = IF T \in last'.had
                                          THEN Remove(component_lists_[T], last'.e)
                                          ELSE component_lists_[T]
             /\ \A S \in DOMAIN systems_ :
                   systems_'[S] = IF S \in last'.was_in
                                  THEN systems_[S] \ {last'.e}
                                  ELSE systems_[S]]_vars

\* C13 witness: an entity was destroyed that no store and no system held, while
\* a store holds another entity's component and a system is registered.
C13_Witness ==
    /\ last.op = "DestroyEntity" /\ last.res = "ok"
    /\ last.had = {} /\ last.was_in = {}
    /\ \E T \in DOMAIN component_lists_ : component_lists_[T].next_component_index_ > 0
    /\ systems_ # EmptyMap

\* C14, on a state: the registered types have the IDs 0 .. next_component_type_ - 1,
\* one each, and every registered type has its store.
C14_Sequential ==
    /\ DOMAIN component_lists_ = DOMAIN component_types_
    /\ {component_types_[T] : T \in DOMAIN component_types_} = 0 .. next_component_type_ - 1
    /\ \A T1, T2 \in DOMAIN component_types_ :
          component_types_[T1] = component_types_[T2] => T1 = T2

C15_TypeIdsBelowMax ==
    /\ Cardinality(DOMAIN component_types_) <= kMaxComponents
    /\ \A T \in DOMAIN component_types_ : component_types_[T] < kMaxComponents

\* What AddComponent<T>(entity, component) does on a ComponentManager
\* (types, lists, next) in which T is registered and whose list of T has room
\* and does not hold entity.
AddedTo(types, lists, next, T, entity, component) ==
    LET err == SignatureStepError(entity, types[T])
        entity_signature == entity_signatures_[entity] \cup {types[T]}
    IN
    /\ component_types_' = types
    /\ next_component_type_' = next
    /\ component_lists_' = [lists EXCEPT ![T] = Insert(lists[T], entity, component)]
    /\ available_entities_' = available_entities_
    /\ last'.res = err
    /\ IF err # "ok"
       THEN UNCHANGED <<entity_signatures_, systems_, system_signatures_>>
       ELSE /\ entity_signatures_' = [entity_signatures_ EXCEPT ![entity] = entity_signature]
            /\ systems_' = EntitySignatureChanged(systems_, system_signatures_,
                                                  entity, entity_signature)
            /\ system_signatures_' = SignaturesTouched(systems_, system_signatures_)

\* C16: implicit registration. AddComponent<T>(E, v) for a never-registered T
\* leaves the engine in the state RegisterComponent<T>() followed by
\* AddComponent<T>(E, v) leaves it in: RegisterComponent gives T the next bit
\* and an empty store, and the same insertion and signature update that
\* AddComponent makes on a freshly registered T is made on that.
C16_ImplicitRegistration ==
    [][/\ (last'.op = "RegisterComponent" /\ ~last'.known) =>
            /\ component_types_' = MapPut(component_types_, last'.t, next_component_type_)
            /\ component_lists_' = MapPut(component_lists_, last'.t, NewComponentList)
            /\ next_component_type_' = next_component_type_ + 1
            /\ UNCHANGED <<available_entities_, entity_signatures_, systems_,
                           system_signatures_>>
       /\ (last'.op = "AddComponent" /\ last'.known
             /\ component_lists_[last'.t] = NewComponentList) =>
            \E component \in Values :
                AddedTo(component_types_, component_lists_, next_component_type_,
                        last'.t, last'.e, component)
       /\ (last'.op = "AddComponent" /\ ~last'.known) =>
            \E component \in Values :
                AddedTo(MapPut(component_types_, last'.t, next_component_type_),
                        MapPut(component_lists_, last'.t, NewComponentList),
                        next_component_type_ + 1,
                        last'.t, last'.e, component)]_vars

\* C16 witness: AddComponent registered a second type on the way, and the new
\* bit completed the entity's signature for a system that requires both.
C16_Witness ==
    /\ last.op = "AddComponent" /\ last.res = "ok" /\ ~last.known
    /\ component_types_[last.t] = 1
    /\ \E S \in DOMAIN systems_ :
          /\ SignatureOf(system_signatures_, S) = {0, 1}
          /\ last.e \in systems_[S]

\* C17: for a never-registered T, RemoveComponent<T>(E), GetComponent<T>(E),
\* GetComponentType<T>() and HasComponent<T>(E) fail with an error, do not
\* register T and leave every store, signature and system set unchanged.
C17_UnregisteredTypeRefused ==
    [][(last'.op \in {"RemoveComponent", "GetComponent", "GetComponentType", "HasComponent"}
          /\ ~last'.known) =>
           /\ last'.res # "ok"
           /\ ~Contains(component_types_', last'.t)
           /\ ~Contains(component_lists_', last'.t)
           /\ UNCHANGED engine]_vars

\* C17 witness: HasComponent was refused for an unregistered type while an
\* entity holds a component of a registered one.
C17_Witness ==
    /\ last.op = "HasComponent" /\ ~last.known /\ last.res = "UnregisteredType"
    /\ last.had # {}

\* C18: for a registered T and an E that holds no T, RemoveComponent<T>(E) and
\* GetComponent<T>(E) fail with NotFound, and the failed call leaves T's store,
\* E's signature and every system's set unchanged.
C18_AbsentComponentNotFound ==
    [][(last'.op \in {"RemoveComponent", "GetComponent"}
          /\ last'.known /\ last'.t \notin last'.had) =>
           /\ last'.res = "NotFound"
           /\ UNCHANGED engine]_vars

\* C18 witness: GetComponent was refused for an entity that holds a component
\* of another type.
C18_Witness ==
    /\ last.op = "GetComponent" /\ last.res = "NotFound"
    /\ last.had # {}

\* C19: systems are singletons per type. RegisterSystem<T> (either overload)
\* for a registered type fails with AlreadyRegistered and leaves the instance,
\* its required signature and its entity set unchanged; the first
\* registration succeeds.
C19_SystemSingleton ==
    [][last'.op = "RegisterSystem" =>
           IF last'.known
           THEN last'.res = "AlreadyRegistered" /\ UNCHANGED engine
           ELSE /\ last'.res = "ok"
                /\ DOMAIN systems_' = DOMAIN systems_ \cup {last'.t}
                /\ \A S \in DOMAIN systems_ : systems_'[S] = systems_[S]
                /\ UNCHANGED system_signatures_]_vars

\* C19 witness: a second registration was refused for a system that has a
\* required signature and an entity in its set.
C19_Witness ==
    /\ last.op = "RegisterSystem" /\ last.res = "AlreadyRegistered"
    /\ SignatureOf(system_signatures_, last.t) # {}
    /\ systems_[last.t] # {}

\* C20, on a state: only registered systems have a signature entry, and
\* GetSystem of a registered system answers with the entity set kept for it.
C20_Registered ==
    /\ DOMAIN system_signatures_ \subseteq DOMAIN systems_
    /\ \A S \in DOMAIN systems_ : GetSystem(S) = [res |-> "ok", value |-> systems_[S]]

\* C20: SetSystemSignature<T> and GetSystem<T> for a never-registered system
\* fail with UnregisteredType and change nothing: no signature entry is
\* recorded, so a RegisterSystem<T> that follows starts with an unset
\* signature. For a registered T, GetSystem<T> succeeds, changes nothing and
\* answers with the instance whose entity set the broadcasts update.
C20_UnregisteredSystemRefused ==
    /\ []C20_Registered
    /\ [][/\ (last'.op \in {"SetSystemSignature", "GetSystem"} /\ ~last'.known) =>
               (last'.res = "UnregisteredType" /\ UNCHANGED engine)
          /\ (last'.op = "GetSystem" /\ last'.known) =>
               (last'.res = "ok" /\ UNCHANGED engine)
          /\ (last'.op = "RegisterSystem" /\ last'.res = "ok") =>
               SignatureOf(system_signatures_', last'.t) = {}]_vars

\* C20 witness: SetSystemSignature was refused for an unregistered system while
\* a registered one has a signature and an entity.
C20_Witness ==
    /\ last.op = "SetSystemSignature" /\ last.res = "UnregisteredType"
    /\ \E S \in DOMAIN systems_ :
          SignatureOf(system_signatures_, S) # {} /\ systems_[S] # {}

\* C21, on a state: for a registered T and an E below kMaxEntities,
\* HasComponent<T>(E) answers, and answers true exactly when T's store holds
\* an entry for E, that is, when GetComponent<T>(E) succeeds.
C21_AgreesWithStorage ==
    \A T \in DOMAIN component_types_, entity \in ValidEntities :
        /\ HasComponent(T, entity).res = "ok"
        /\ HasComponent(T, entity).value = (GetComponent(T, entity).res = "ok")
        /\ HasComponent(T, entity).value =
               Contains(component_lists_[T].entity_to_component_index_, entity)

\* C21: HasComponent<T>(E) is read-only and agrees with storage. For a
\* registered T and E < kMaxEntities the call changes no state, and in every
\* reachable state it returns true iff T's store holds an entry for E: the
\* bit of T in E's signature is set iff T's store contains E.
C21_HasComponentReadsStorage ==
    /\ []C21_AgreesWithStorage
    /\ [][last'.op = "HasComponent" => UNCHANGED engine]_vars

\* The statement of a running AddComponent, RemoveComponent or DestroyEntity
\* that a step executes: 1, 2 or 3, and 0 for a step of another call.
Line ==
    IF last.res = "line2" THEN 2
    ELSE IF last.res = "line3" THEN 3
    ELSE IF last'.op \in {"AddComponent", "RemoveComponent", "DestroyEntity"} THEN 1
    ELSE 0

\* C22: pipeline order. In each of AddComponent, RemoveComponent and
\* DestroyEntity the component storage is mutated first, the entity's
\* signature is written second and the systems are notified third: no
\* signature write precedes the storage mutation and no system set changes
\* before the signature is written.
C22_PipelineOrder ==
    [][Line # 0 =>
           /\ (component_lists_' # component_lists_ => Line = 1)
           /\ (entity_signatures_' # entity_signatures_ => Line = 2)
           /\ (systems_' # systems_ => Line = 3)]_vars

\* C22 as the code has it: AddComponent and RemoveComponent mutate the storage,
\* then write the signature, then notify the systems; DestroyEntity resets the
\* signature and returns the ID to the pool first, then purges the stores,
\* then notifies the systems.
C22_PipelineOrderByCall ==
    [][Line # 0 =>
           /\ (component_lists_' # component_lists_ =>
                  Line = IF last'.op = "DestroyEntity" THEN 2 ELSE 1)
           /\ (entity_signatures_' # entity_signatures_ =>
                  Line = IF last'.op = "DestroyEntity" THEN 1 ELSE 2)
           /\ (available_entities_' # available_entities_ =>
                  (Line = 1 /\ last'.op = "DestroyEntity"))
           /\ (systems_' # systems_ => Line = 3)]_vars

\* C22 witness: DestroyEntity has reset the signature of an entity while a
\* store and a system still hold the entity.
C22_Witness ==
    /\ At("DestroyEntity", "line2")
    /\ last.was_live
    /\ entity_signatures_[last.e] = {}
    /\ StoresHolding(last.e) # {}
    /\ SystemsHolding(last.e) # {}

\* The system has no required signature: none was set, or an empty one.
Unset(S) == ~Contains(system_signatures_, S) \/ system_signatures_[S] = {}

\* C23: a registered system whose signature was never set matches
\* everything. Every EntitySignatureChanged broadcast for an entity, whatever
\* the new signature (the empty one after its last component is removed
\* included), puts the entity in the system's set, and only the destruction
\* broadcast takes it out.
C23_UnsetMatchesEverything ==
    [][\A S \in DOMAIN systems_ :
          Unset(S) =>
              /\ (last'.op \in {"AddComponent", "RemoveComponent"} /\ last'.res = "ok")
                    => last'.e \in systems_'[S]
              /\ \A entity \in systems_[S] \ systems_'[S] :
                    last'.op = "DestroyEntity" /\ last'.e = entity]_vars

\* C23 witness: the last component of an entity was removed and the entity is
\* in the set of a system without a signature, and not in the set of a system
\* that requires a component.
C23_Witness ==
    /\ last.op = "RemoveComponent" /\ last.res = "ok"
    /\ entity_signatures_[last.e] = {}
    /\ \E S \in DOMAIN systems_ : Unset(S)
    /\ \A S \in DOMAIN systems_ : last.e \in systems_[S] <=> Unset(S)
    /\ \E S \in DOMAIN systems_ : last.e \notin systems_[S]

\* C24: the ID pool is a FIFO queue seeded with 0 .. kMaxEntities - 1. A fresh
\* engine holds the IDs in increasing order, CreateEntity takes the ID at the
\* front, DestroyEntity puts its ID at the back and nothing else touches the
\* pool: an ID given back is issued again only after every ID that was in the
\* pool when it was given back.
C24_PoolIsFifo ==
    /\ Len(available_entities_) = kMaxEntities
    /\ \A i \in 1 .. Len(available_entities_) : available_entities_[i] = i - 1
    /\ [][IF last'.op = "CreateEntity" /\ last'.res = "ok"
          THEN /\ last'.e = Head(available_entities_)
               /\ available_entities_' = Tail(available_entities_)
          ELSE IF last'.op = "DestroyEntity" /\ last'.res = "ok"
          THEN available_entities_' = Append(available_entities_, last'.e)
          ELSE UNCHANGED available_entities_]_vars

\* C24 witness: CreateEntity issued the recycled ID 0 after it had issued the
\* ID 1, which was in the pool when 0 was given back.
C24_Witness ==
    /\ last.op = "CreateEntity" /\ last.res = "ok"
    /\ last.e = 0 /\ ~last.was_live
    /\ 1 \in live

\* The IDs in the pool.
Pooled == {available_entities_[i] : i \in 1 .. Len(available_entities_)}

\* C25: pool conservation. When DestroyEntity is only called on live IDs, the
\* pool holds no ID twice, the pooled and the live IDs are disjoint and
\* together are 0 .. kMaxEntities - 1, and pool size plus number of live
\* entities is kMaxEntities.
C25_PoolConservation ==
    /\ \A i, j \in 1 .. Len(available_entities_) :
          available_entities_[i] = available_entities_[j] => i = j
    /\ Pooled \cap live = {}
    /\ Pooled \cup live = ValidEntities
    /\ Len(available_entities_) + Cardinality(live) = kMaxEntities

\* C25 witness: an entity was destroyed while another one stays live, and the
\* pool holds an ID again.
C25_Witness ==
    /\ last.op = "DestroyEntity" /\ last.res = "ok"
    /\ live # {}
    /\ Len(available_entities_) = 1

\* C26, on a state: no store holds more than kMaxEntities entries.
C26_WithinArray ==
    \A T \in DOMAIN component_lists_ :
        /\ component_lists_[T].next_component_index_ <= kMaxEntities
        /\ Cardinality(DOMAIN component_lists_[T].entity_to_component_index_) <= kMaxEntities

\* C26: store bound. For any sequence of AddComponent, RemoveComponent and
\* DestroyEntity calls with arbitrary entity arguments, no store ever holds
\* more than kMaxEntities entries and Insert never writes a slot at or beyond
\* kMaxEntities, the size of the array.
C26_StoreBound ==
    /\ []C26_WithinArray
    /\ [][(last'.op = "AddComponent" /\ last'.res # "DuplicateEntity" /\ last'.known) =>
             component_lists_[last'.t].next_component_index_ < kMaxEntities]_vars

\* C27: fresh on reuse. Every ID that CreateEntity returns, a recycled one
\* included, has an empty signature, no entry in any store and is in no
\* system's set, after any sequence of Engine calls.
C27_FreshOnReuse ==
    (last.op = "CreateEntity" /\ last.res = "ok") =>
        /\ entity_signatures_[last.e] = {}
        /\ StoresHolding(last.e) = {}
        /\ SystemsHolding(last.e) = {}

\* The stores a successful call for entity may touch: the store of the type
\* for AddComponent and RemoveComponent, the stores that held the entity for
\* DestroyEntity.
StoresOfCall(call) == IF call.op = "DestroyEntity" THEN call.had ELSE {call.t}

\* C28: frame. A successful AddComponent<T>(E, v), RemoveComponent<T>(E) or
\* DestroyEntity(E) changes only E's data: every other entity F keeps its
\* signature, its membership in every system's set, the set of stores that
\* hold it and the value Get returns for it in each of them, and the stores
\* of types the call is not about stay as they are.
C28_Frame ==
    [][(last'.op \in {"AddComponent", "RemoveComponent", "DestroyEntity"}
          /\ last'.res = "ok") =>
           /\ \A F \in EntityArgs \ {last'.e} :
                 /\ F \in ValidEntities => entity_signatures_'[F] = entity_signatures_[F]
                 /\ \A S \in DOMAIN systems_ : (F \in systems_'[S]) = (F \in systems_[S])
                 /\ \A T \in DOMAIN component_lists_' :
                       LET holds_after ==
                               Contains(component_lists_'[T].entity_to_component_index_, F)
                           held_before ==
                               /\ Contains(component_lists_, T)
                               /\ Contains(component_lists_[T].entity_to_component_index_, F)
                       IN /\ holds_after = held_before
                          /\ holds_after =>
                                Get(component_lists_'[T], F) = Get(component_lists_[T], F)
           /\ \A T \in DOMAIN component_lists_ \ StoresOfCall(last') :
                 component_lists_'[T] = component_lists_[T]]_vars

\* C28 witness: a component of the entity in the first slot was removed from
\* a store that holds another entity's component too, which moved into that
\* slot; the other entity is in the system's set.
C28_Witness ==
    /\ last.op = "RemoveComponent" /\ last.res = "ok"
    /\ \E F \in ValidEntities \ {last.e} :
          /\ Contains(component_lists_[last.t].entity_to_component_index_, F)
          /\ component_lists_[last.t].entity_to_component_index_[F] = 0
          /\ Get(component_lists_[last.t], F) = F + 1
          /\ component_lists_[last.t].components_[1] = F + 1
          /\ Cardinality(StoresHolding(F)) = 2
          /\ SystemsHolding(F) # {}
    /\ StoresHolding(last.e) # {}

====
